---- MODULE Spec2Model ----
(***************************************************************************)
(* Link lifecycle and credit-controlled delivery of eventhubs/_impl.py:    *)
(* one engine (a SenderHandler or a ReceiverHandler, both ClientHandler    *)
(* subclasses), the links the container created for it, the reactor's      *)
(* pending timer tasks, the shared connection and the sender's queue.      *)
(***************************************************************************)
EXTENDS Integers, Sequences, FiniteSets, TLC

\* ---------------------------------------------------------------- bounds
MaxIter == 2      \* start() calls explored (links created)
MaxMsgs == 2      \* messages producers submit
MaxCredit == 2    \* credit the peer grants on one link
MaxPolicyCalls == 4  \* calls made on one SessionPolicy

VARIABLES
  kind,        \* "send" (SenderHandler) or "recv" (ReceiverHandler)
  container,   \* self.container: "none" or the recorded container
  link,        \* self.link: 0 is None, else an index into links
  iteration,   \* self.iteration
  links,       \* every link object the container created for this engine
  timers,      \* timer tasks scheduled on the reactor and not yet fired
  connCloses,  \* number of close() calls made on the shared connection
  injector,    \* self.injector: "none", "open" or "closed"
  selectables, \* number of container.selectable(injector) registrations
  injq,        \* events triggered on the injector and not yet dispatched
  messages,    \* self.messages, oldest first
  count,       \* self.count
  sentLog,     \* every link.send call made so far, in call order
  nextMsg,     \* identity of the next message a producer submits
  stopped,     \* stop() has run and start() was not called by the owner since
  err,         \* "none", or the failure that ended the event loop
  shared_session, \* SessionPolicy.shared_session: 0 is None, else an index into sessionObjs
  sessionObjs, \* every session object context.session() returned
  policyLog,   \* the calls made on the policy and what session() returned
  selValue,    \* OffsetUtil.selector: the value argument
  selInclusive, \* OffsetUtil.selector: the inclusive argument
  selResult    \* OffsetUtil.selector: the filter returned, <<>> before the call

\* The engine's state and the session policy's.
engineVars == <<kind, container, link, iteration, links, timers, connCloses, injector,
                selectables, injq, messages, count, sentLog, nextMsg, stopped, err>>
policyVars == <<shared_session, sessionObjs, policyLog>>
selectorVars == <<selValue, selInclusive, selResult>>

vars == <<kind, container, link, iteration, links, timers, connCloses, injector,
          selectables, injq, messages, count, sentLog, nextMsg, stopped, err,
          shared_session, sessionObjs, policyLog, selValue, selInclusive, selResult>>

\* ------------------------------------------------------------ ClientHandler
NoCondition == "none"

\* Mutant: "amqp:not-found" left out of the list.
fatal_conditions_without_not_found == {"amqp:unauthorized-access"}

\* self.fatal_conditions
fatal_conditions == {"amqp:unauthorized-access", "amqp:not-found"}

\* The conditions a peer's detach may carry: absent, the two fatal ones and one
\* that is not in fatal_conditions.
Conditions == {NoCondition, "amqp:unauthorized-access", "amqp:not-found",
               "amqp:link:detach-forced"}

Prefix(k) == IF k = "send" THEN "send" ELSE "recv"

\* self.name: the prefix and the uuid part, fixed at construction.
EngineName(k) == <<Prefix(k), "uuid">>

\* "%s:%d" % (self.name, self.iteration)
_get_link_name(k, it) == <<EngineName(k), it>>

\* Mutant: the increment forgotten.
NextIterationStuck(it) == it

\* self.iteration += 1
NextIteration(it) == it + 1

\* A link as container.create_sender / create_receiver returns it.
NewLink(k, it) ==
  [name |-> _get_link_name(k, it), localClosed |-> FALSE, remoteClosed |-> FALSE,
   frees |-> 0, credit |-> 0, granted |-> 0]

\* Mutant: the early return of on_link_remote_close never taken.
is_local_closed_ignored(l) == FALSE

\* EndpointStateHandler.is_local_closed(link)
is_local_closed(l) == links[l].localClosed

\* Mutant: any condition at all taken as fatal.
IsFatalAnyCondition(c) == c # NoCondition

\* condition and condition.name in self.fatal_conditions
IsFatal(c) == c # NoCondition /\ c \in fatal_conditions

\* The delay given to reactor.schedule.
RetryDelay == 2

\* Mutant: the retry is not scheduled.
ScheduleRetryDropped(t) == t

\* event.reactor.schedule(2.0, self): one more pending task, with its delay.
ScheduleRetry(t) == Append(t, RetryDelay)

\* link.__eq__(self.link)
IsCurrent(l, cur) == l = cur

\* ------------------------------------------------------------ SenderHandler
\* str(self.count): the decimal digits, most significant first.
RECURSIVE DecStr(_)
DecStr(n) == IF n < 10 THEN <<n>> ELSE Append(DecStr(n \div 10), n % 10)

\* self.count += 1
NextCount(c) == c + 1

\* Mutant: the newest message is taken (a stack instead of a queue).
QueueGetNewest(q) == [msg |-> q[Len(q)], rest |-> SubSeq(q, 1, Len(q) - 1)]

\* self.messages.get(False): the oldest message and what stays queued.
QueueGet(q) == [msg |-> Head(q), rest |-> Tail(q)]

\* Mutant: put replaces what is queued instead of appending to it.
QueuePutOverwrites(q, m) == <<m>>

\* self.messages.put(event.subject)
QueuePut(q, m) == Append(q, m)

\* Mutant: the credit test left out of the loop condition.
CanSendIgnoringCredit(cr, q) == q # <<>>

\* The loop condition of on_sendable: self.link.credit and not self.messages.empty()
CanSend(cr, q) == cr # 0 /\ q # <<>>

\* link.send(message, tag=str(self.count)): the message, the tag and the link
\* the call was made on; the link's credit goes down by one.
SendRecord(m, cnt, lk) == [msg |-> m, tag |-> DecStr(cnt), link |-> lk]

\* Mutant: an if in place of the while, so one message at most is sent.
DrainOnce(q, cr, cnt, log, lk) ==
  IF CanSend(cr, q)
  THEN LET g == QueueGet(q)
       IN [q |-> g.rest, cr |-> cr - 1, cnt |-> NextCount(cnt),
           log |-> Append(log, SendRecord(g.msg, cnt, lk))]
  ELSE [q |-> q, cr |-> cr, cnt |-> cnt, log |-> log]

\* The while loop of on_sendable on link lk, from queue q, credit cr, counter cnt.
RECURSIVE Drain(_, _, _, _, _)
Drain(q, cr, cnt, log, lk) ==
  IF CanSend(cr, q)
  THEN LET g == QueueGet(q)
       IN Drain(g.rest, cr - 1, NextCount(cnt), Append(log, SendRecord(g.msg, cnt, lk)), lk)
  ELSE [q |-> q, cr |-> cr, cnt |-> cnt, log |-> log]

\* on_sendable(event) once q is the queue: self.link is dereferenced whatever
\* the event's link; with self.link None the attribute access raises.
on_sendable(q) ==
  IF link = 0
  THEN /\ err' = "AttributeError"
       /\ messages' = q
       /\ UNCHANGED <<links, count, sentLog>>
  ELSE LET d == Drain(q, links[link].credit, count, sentLog, link)
       IN /\ messages' = d.q
          /\ count' = d.cnt
          /\ sentLog' = d.log
          /\ links' = [links EXCEPT ![link].credit = d.cr]
          /\ err' = err

\* SenderHandler.on_start
Sender_on_start ==
  /\ injector' = IF injector = "none" THEN "open" ELSE injector
  /\ selectables' = IF injector = "none" THEN selectables + 1 ELSE selectables
  /\ links' = Append(links, NewLink(kind, iteration'))
  /\ link' = Len(links) + 1

\* ReceiverHandler.on_start
Receiver_on_start ==
  /\ links' = Append(links, NewLink(kind, iteration'))
  /\ link' = Len(links) + 1
  /\ UNCHANGED <<injector, selectables>>

on_start == IF kind = "send" THEN Sender_on_start ELSE Receiver_on_start

\* Mutant: on_stop also clears the reference to the closed injector.
on_stop_clears_injector ==
  injector' = "none"

\* SenderHandler.on_stop / ClientHandler.on_stop
on_stop ==
  injector' = IF kind = "send" /\ injector # "none" THEN "closed" ELSE injector

\* ClientHandler.start(container)
start(c) ==
  /\ iteration < MaxIter
  /\ container' = c
  /\ iteration' = NextIteration(iteration)
  /\ on_start

\* ------------------------------------------------------------ SessionPolicy
\* The contexts (connections) session() may be called with.
Contexts == {"connection1", "connection2"}

\* A session as context.session() returns it, before open().
NewSession(context) == [context |-> context, opens |-> 0, closes |-> 0, frees |-> 0]

\* Mutant: the test of session() left out, so every call makes a session.
sessionAlwaysCreates(context) ==
  /\ Len(policyLog) < MaxPolicyCalls
  /\ sessionObjs' = Append(sessionObjs, [NewSession(context) EXCEPT !.opens = 1])
  /\ shared_session' = Len(sessionObjs) + 1
  /\ policyLog' = Append(policyLog, [op |-> "session", ret |-> shared_session'])
  /\ UNCHANGED <<engineVars, selectorVars>>

\* SessionPolicy.session(context)
session(context) ==
  /\ Len(policyLog) < MaxPolicyCalls
  /\ IF shared_session = 0
     THEN /\ sessionObjs' = Append(sessionObjs, [NewSession(context) EXCEPT !.opens = 1])
          /\ shared_session' = Len(sessionObjs) + 1
     ELSE UNCHANGED <<sessionObjs, shared_session>>
  /\ policyLog' = Append(policyLog, [op |-> "session", ret |-> shared_session'])
  /\ UNCHANGED <<engineVars, selectorVars>>

\* Mutant: the reference is not cleared after the session is freed.
freeKeepsReference ==
  /\ Len(policyLog) < MaxPolicyCalls
  /\ IF shared_session # 0
     THEN /\ sessionObjs' = [sessionObjs EXCEPT
                               ![shared_session].closes = sessionObjs[shared_session].closes + 1,
                               ![shared_session].frees = sessionObjs[shared_session].frees + 1]
          /\ shared_session' = shared_session
     ELSE UNCHANGED <<sessionObjs, shared_session>>
  /\ policyLog' = Append(policyLog, [op |-> "free", ret |-> 0])
  /\ UNCHANGED <<engineVars, selectorVars>>

\* SessionPolicy.free()
free ==
  /\ Len(policyLog) < MaxPolicyCalls
  /\ IF shared_session # 0
     THEN /\ sessionObjs' = [sessionObjs EXCEPT
                               ![shared_session].closes = sessionObjs[shared_session].closes + 1,
                               ![shared_session].frees = sessionObjs[shared_session].frees + 1]
          /\ shared_session' = 0
     ELSE UNCHANGED <<sessionObjs, shared_session>>
  /\ policyLog' = Append(policyLog, [op |-> "free", ret |-> 0])
  /\ UNCHANGED <<engineVars, selectorVars>>

\* --------------------------------------------------------------- OffsetUtil
\* The values selector() is given: a datetime.datetime (microseconds since the
\* epoch), a proton timestamp (milliseconds), or an offset token, which is a
\* byte string or a unicode string.
NoValue == [type |-> "none"]
DatetimeValues == {[type |-> "datetime", us |-> u] : u \in {0, 999, 1000, 1999, 2500}}
TimestampValues == {[type |-> "timestamp", ms |-> m] : m \in {0, 1, 2, 7}}
OffsetTokens == {[type |-> t, text |-> x] : t \in {"bytes", "unicode"}, x \in {"-1", "100", "@latest"}}
SelectorValues == DatetimeValues \cup TimestampValues \cup OffsetTokens

\* timestamp((value - epoch).total_seconds() * 1000.0): whole milliseconds.
MilliSeconds(v) == v.us \div 1000

\* utf82unicode(value): a byte string is decoded, a unicode string is kept.
utf82unicode(v) == [type |-> "unicode", text |-> v.text]

\* Mutant: inclusive ignored, the comparison always strict.
OffsetOperatorAlwaysStrict(inclusive) == ">"

\* operator = ">=" if inclusive else ">"
OffsetOperator(inclusive) == IF inclusive THEN ">=" ELSE ">"

\* The filter string, as the pieces the code concatenates.
Filter(annotation, operator, text) ==
  <<"amqp.annotation.", annotation, " ", operator, " '", text, "'">>

\* OffsetUtil.selector(value, inclusive)
selector(value, inclusive) ==
  IF value.type = "datetime"
  THEN Filter("x-opt-enqueued-time", ">", DecStr(MilliSeconds(value)))
  ELSE IF value.type = "timestamp"
  THEN Filter("x-opt-enqueued-time", ">", DecStr(value.ms))
  ELSE Filter("x-opt-offset", OffsetOperator(inclusive), utf82unicode(value).text)

\* A caller asks for the selector of the value it holds.
CallSelector ==
  /\ selValue # NoValue
  /\ selResult = <<>>
  /\ selResult' = selector(selValue, selInclusive)
  /\ UNCHANGED <<engineVars, policyVars, selValue, selInclusive>>

\* ------------------------------------------------------------------ state
Init ==
  /\ kind \in {"send", "recv"}
  /\ container = "none"
  /\ link = 0
  /\ iteration = 0
  /\ links = <<>>
  /\ timers = <<>>
  /\ connCloses = 0
  /\ injector = "none"
  /\ selectables = 0
  /\ injq = <<>>
  /\ messages = <<>>
  /\ count = 0
  /\ sentLog = <<>>
  /\ nextMsg = 1
  /\ stopped = FALSE
  /\ err = "none"
  /\ shared_session = 0
  /\ sessionObjs = <<>>
  /\ policyLog = <<>>
  /\ selValue = NoValue
  /\ selInclusive = FALSE
  /\ selResult = <<>>

\* ---------------------------------------------------------------- actions
\* The owner of the engine calls start(container).
Start ==
  /\ UNCHANGED <<policyVars, selectorVars>>
  /\ err = "none"
  /\ start("container")
  /\ stopped' = FALSE
  /\ UNCHANGED <<kind, timers, connCloses, injq, messages, count, sentLog, nextMsg, err>>

\* The owner calls stop(). A link that on_link_remote_close already freed and
\* left in self.link (the fatal branch) is freed a second time here: the
\* library's pn_link_free asserts the link is not freed, so the call either
\* aborts the process (assertions on) or goes through (assertions off).
Stop ==
  /\ UNCHANGED <<policyVars, selectorVars>>
  /\ err = "none"
  /\ on_stop
  /\ stopped' = TRUE
  /\ IF link = 0
     THEN UNCHANGED <<link, links, err>>
     ELSE IF links[link].frees = 0
     THEN /\ links' = [links EXCEPT ![link].localClosed = TRUE, ![link].frees = 1]
          /\ link' = 0
          /\ err' = err
     ELSE \/ /\ links' = [links EXCEPT ![link].localClosed = TRUE,
                                        ![link].frees = links[link].frees + 1]
             /\ link' = 0
             /\ err' = err
          \/ /\ links' = [links EXCEPT ![link].localClosed = TRUE]
             /\ link' = link
             /\ err' = "abort"
  /\ UNCHANGED <<kind, container, iteration, timers, connCloses, selectables, injq,
                 messages, count, sentLog, nextMsg>>

\* The peer detaches link l with condition c and the reactor dispatches
\* on_link_remote_close for it.
OnLinkRemoteClose(l, c) ==
  /\ UNCHANGED <<policyVars, selectorVars>>
  /\ err = "none"
  /\ l \in DOMAIN links
  /\ ~links[l].remoteClosed
  /\ IF is_local_closed(l)
     THEN /\ links' = [links EXCEPT ![l].remoteClosed = TRUE]
          /\ UNCHANGED <<link, timers, connCloses>>
     ELSE /\ links' = [links EXCEPT ![l].remoteClosed = TRUE,
                                    ![l].localClosed = TRUE,
                                    ![l].frees = links[l].frees + 1]
          /\ IF IsFatal(c)
             THEN /\ connCloses' = connCloses + 1
                  /\ UNCHANGED <<link, timers>>
             ELSE IF IsCurrent(l, link)
             THEN /\ link' = 0
                  /\ timers' = ScheduleRetry(timers)
                  /\ connCloses' = connCloses
             ELSE UNCHANGED <<link, timers, connCloses>>
  /\ UNCHANGED <<kind, container, iteration, injector, selectables, injq, messages,
                 count, sentLog, nextMsg, stopped, err>>

\* Mutant: the test of on_timer_task inverted.
OnTimerTaskInverted ==
  /\ UNCHANGED <<policyVars, selectorVars>>
  /\ err = "none"
  /\ timers # <<>>
  /\ timers' = Tail(timers)
  /\ IF link # 0
     THEN start(container)
     ELSE UNCHANGED <<container, iteration, link, links, injector, selectables>>
  /\ UNCHANGED <<kind, connCloses, injq, messages, count, sentLog, nextMsg, stopped, err>>

\* A scheduled timer task fires: on_timer_task.
OnTimerTask ==
  /\ UNCHANGED <<policyVars, selectorVars>>
  /\ err = "none"
  /\ timers # <<>>
  /\ timers' = Tail(timers)
  /\ IF link = 0
     THEN start(container)
     ELSE UNCHANGED <<container, iteration, link, links, injector, selectables>>
  /\ UNCHANGED <<kind, connCloses, injq, messages, count, sentLog, nextMsg, stopped, err>>

\* Mutant: send() puts the message on the outbound queue itself.
SendPutsOnQueue ==
  /\ UNCHANGED <<policyVars, selectorVars>>
  /\ err = "none"
  /\ kind = "send"
  /\ nextMsg <= MaxMsgs
  /\ nextMsg' = nextMsg + 1
  /\ messages' = QueuePut(messages, nextMsg)
  /\ UNCHANGED <<kind, container, link, iteration, links, timers, connCloses, injector,
                 selectables, injq, count, sentLog, stopped, err>>

\* A producer, in its own thread, calls send(message): one event carrying the
\* message is triggered on the injector. Before the first attach there is no
\* injector: the call raises AttributeError in the producer and posts nothing.
Send ==
  /\ UNCHANGED <<policyVars, selectorVars>>
  /\ err = "none"
  /\ kind = "send"
  /\ nextMsg <= MaxMsgs
  /\ nextMsg' = nextMsg + 1
  /\ injq' = IF injector = "none" THEN injq ELSE Append(injq, nextMsg)
  /\ UNCHANGED <<kind, container, link, iteration, links, timers, connCloses, injector,
                 selectables, messages, count, sentLog, stopped, err>>

\* The reactor dispatches the oldest injected event: on_message.
OnMessage ==
  /\ UNCHANGED <<policyVars, selectorVars>>
  /\ err = "none"
  /\ kind = "send"
  /\ injq # <<>>
  /\ injq' = Tail(injq)
  /\ on_sendable(QueuePut(messages, Head(injq)))
  /\ UNCHANGED <<kind, container, link, iteration, timers, connCloses, injector,
                 selectables, nextMsg, stopped>>

\* The peer grants c more credits on sender link l.
PeerFlow(l, c) ==
  /\ UNCHANGED <<policyVars, selectorVars>>
  /\ err = "none"
  /\ kind = "send"
  /\ l \in DOMAIN links
  /\ ~links[l].localClosed /\ ~links[l].remoteClosed
  /\ links[l].granted + c <= MaxCredit
  /\ links' = [links EXCEPT ![l].credit = links[l].credit + c,
                            ![l].granted = links[l].granted + c]
  /\ UNCHANGED <<kind, container, link, iteration, timers, connCloses, injector,
                 selectables, injq, messages, count, sentLog, nextMsg, stopped, err>>

\* The library's OutgoingMessageHandler sees credit on an active sender link l
\* and calls on_sendable.
OnSendable(l) ==
  /\ UNCHANGED <<policyVars, selectorVars>>
  /\ err = "none"
  /\ kind = "send"
  /\ l \in DOMAIN links
  /\ ~links[l].localClosed /\ ~links[l].remoteClosed
  /\ links[l].credit # 0
  /\ on_sendable(messages)
  /\ UNCHANGED <<kind, container, link, iteration, timers, connCloses, injector,
                 selectables, injq, nextMsg, stopped>>

Next ==
  \/ Stop
  \/ Start
  \/ \E l \in DOMAIN links, c \in Conditions : OnLinkRemoteClose(l, c)
  \/ OnTimerTask
  \/ Send
  \/ OnMessage
  \/ \E l \in DOMAIN links, c \in 1..MaxCredit : PeerFlow(l, c)
  \/ \E l \in DOMAIN links : OnSendable(l)

Spec == Init /\ [][Next]_vars

\* One SessionPolicy, called by the event-loop thread.
NextPolicy ==
  \/ \E context \in Contexts : session(context)
  \/ free

SpecPolicy == Init /\ [][NextPolicy]_vars

\* OffsetUtil.selector on every value and both settings of inclusive.
InitSelector ==
  /\ kind \in {"send", "recv"}
  /\ container = "none" /\ link = 0 /\ iteration = 0 /\ links = <<>>
  /\ timers = <<>> /\ connCloses = 0 /\ injector = "none" /\ selectables = 0
  /\ injq = <<>> /\ messages = <<>> /\ count = 0 /\ sentLog = <<>> /\ nextMsg = 1
  /\ stopped = FALSE /\ err = "none"
  /\ shared_session = 0 /\ sessionObjs = <<>> /\ policyLog = <<>>
  /\ selValue \in SelectorValues
  /\ selInclusive \in BOOLEAN
  /\ selResult = <<>>

NextSelector == CallSelector

SpecSelector == InitSelector /\ [][NextSelector]_vars

\* The reactor fires every timer task it was given: a pending task is not
\* starved for ever.
SpecTimers == Init /\ [][Next]_vars /\ WF_vars(OnTimerTask)

\* ----------------------------------------------------------------- claims
\* The condition names the claims call fatal, and the others a detach may carry.
FatalNames == {"amqp:unauthorized-access", "amqp:not-found"}
OtherConditions == Conditions \ FatalNames

\* A link the engine created that is neither closed nor freed.
Live(l) == ~links[l].localClosed /\ links[l].frees = 0

\* The number of link.send calls made on link l.
NSent(l) == Cardinality({k \in DOMAIN sentLog : sentLog[k].link = l})

\* The number a string of decimal digits denotes.
RECURSIVE DecVal(_)
DecVal(s) == IF s = <<>> THEN 0 ELSE 10 * DecVal(SubSeq(s, 1, Len(s) - 1)) + s[Len(s)]

Min(a, b) == IF a <= b THEN a ELSE b

\* C1, as stated: every remote-close event with a fatal condition closes the
\* connection and schedules no retry. Fails for a link the local side had
\* already closed: the handler returns DELEGATED before looking at the condition.
C1_FatalAlwaysClosesConnection ==
  [][\A l \in DOMAIN links, c \in FatalNames :
       OnLinkRemoteClose(l, c) => connCloses' = connCloses + 1 /\ timers' = timers]_vars

\* C1, amended: a remote-close event for a link that is not locally closed and
\* whose condition is amqp:unauthorized-access or amqp:not-found closes the
\* connection (one close call) and schedules no retry timer.
C1_FatalClosesConnection ==
  [][\A l \in DOMAIN links, c \in FatalNames :
       (OnLinkRemoteClose(l, c) /\ ~links[l].localClosed)
         => connCloses' = connCloses + 1 /\ timers' = timers]_vars

\* A fatal detach of the current link has been handled: the connection was
\* closed, the link freed, nothing scheduled.
C1_Witness ==
  /\ connCloses = 1
  /\ timers = <<>>
  /\ link # 0
  /\ links[link].remoteClosed /\ links[link].frees = 1

\* C2, as stated: every remote-close event with an absent or non-fatal condition
\* schedules exactly one retry (delay 2.0) and closes no connection. Fails for a
\* link already closed locally and for a link that is not the engine's current one.
C2_RecoverableAlwaysRetries ==
  [][\A l \in DOMAIN links, c \in OtherConditions :
       OnLinkRemoteClose(l, c) => timers' = Append(timers, 2) /\ connCloses' = connCloses]_vars

\* C2, amended: a remote-close event for a link that is not locally closed, with
\* an absent or non-fatal condition, closes no connection; it schedules exactly
\* one retry with delay 2.0 when the link is the engine's current link, and none
\* otherwise.
C2_RecoverableRetries ==
  [][\A l \in DOMAIN links, c \in OtherConditions :
       (OnLinkRemoteClose(l, c) /\ ~links[l].localClosed)
         => /\ connCloses' = connCloses
            /\ timers' = IF l = link THEN Append(timers, 2) ELSE timers]_vars

\* A recoverable detach of the current link has been handled: one retry is
\* pending, the reference is cleared and the connection was never closed.
C2_Witness ==
  /\ timers = <<2>>
  /\ link = 0
  /\ connCloses = 0
  /\ \E l \in DOMAIN links : links[l].remoteClosed /\ links[l].frees = 1

\* C3: the iteration counter grows by exactly one on every start() and never
\* otherwise (it equals the number of links ever attached), and the names given
\* to the container on successive attaches are pairwise distinct, of the form
\* name:iteration, with strictly increasing iteration suffixes.
C3_LinkNamesDistinctIncreasing ==
  /\ iteration = Len(links)
  /\ \A i \in DOMAIN links :
       /\ links[i].name[1] = <<kind, "uuid">>
       /\ links[i].name[2] >= 1 /\ links[i].name[2] <= iteration
  /\ \A i, j \in DOMAIN links :
       i < j => links[i].name # links[j].name /\ links[i].name[2] < links[j].name[2]

\* A second link attached by the retry path after the first was detached.
C3_Witness ==
  /\ Len(links) >= 2
  /\ links[1].remoteClosed
  /\ link = Len(links)
  /\ ~stopped

\* C4: on every link the credit left is the credit granted minus the messages
\* sent and is never negative: each link.send was made with credit > 0 and the
\* sends on a link never exceed the credit the peer granted on it.
C4_SendsWithinCredit ==
  \A l \in DOMAIN links :
    /\ links[l].credit >= 0
    /\ NSent(l) <= links[l].granted
    /\ links[l].credit = links[l].granted - NSent(l)

\* The credit of the current link is used up and a message is still queued.
C4_Witness ==
  /\ link # 0
  /\ links[link].granted >= 1 /\ links[link].credit = 0
  /\ NSent(link) = links[link].granted
  /\ messages # <<>>

\* C5: messages are sent in the order their enqueue events were handled, and the
\* k-th send carries the decimal tag k-1: the counter is the number of sends so
\* far, on whatever link they were made; what is still queued or still in the
\* injector is newer than everything sent, and in submission order.
C5_FifoAndTags ==
  /\ count = Len(sentLog)
  /\ \A k \in DOMAIN sentLog : DecVal(sentLog[k].tag) = k - 1
  /\ \A j, k \in DOMAIN sentLog : j < k => sentLog[j].msg < sentLog[k].msg
  /\ \A j, k \in DOMAIN messages : j < k => messages[j] < messages[k]
  /\ \A k \in DOMAIN sentLog, j \in DOMAIN messages : sentLog[k].msg < messages[j]
  /\ \A j \in DOMAIN messages, i \in DOMAIN injq : messages[j] < injq[i]

\* Two messages sent on two different links, across a reattach.
C5_Witness ==
  /\ Len(sentLog) >= 2
  /\ sentLog[1].link # sentLog[2].link

\* C6: a drain (on_sendable) on an attached sender with k messages queued and c
\* credits sends exactly the min(k, c) oldest messages, in order, with the next
\* min(k, c) tags, and leaves the others queued in their order; after every
\* drain, also the one on_message ends with, the credit is 0 or the queue empty.
C6_DrainSendsMinOfQueueAndCredit ==
  [][/\ (link # 0 /\ \E l \in DOMAIN links : OnSendable(l)) =>
          LET k == Len(messages)
              n == Min(k, links[link].credit)
          IN /\ Len(sentLog') = Len(sentLog) + n
             /\ \A i \in 1..n :
                  /\ sentLog'[Len(sentLog) + i].msg = messages[i]
                  /\ DecVal(sentLog'[Len(sentLog) + i].tag) = count + i - 1
                  /\ sentLog'[Len(sentLog) + i].link = link
             /\ messages' = SubSeq(messages, n + 1, k)
             /\ links'[link].credit = links[link].credit - n
             /\ (links'[link].credit = 0 \/ messages' = <<>>)
     /\ (link # 0 /\ OnMessage) => (links'[link].credit = 0 \/ messages' = <<>>)]_vars

\* A drain that ran out of credit: the oldest message went out with tag 0, the
\* second is still queued and the link has no credit left.
C6_Witness ==
  /\ Len(sentLog) = 1 /\ sentLog[1].msg = 1 /\ sentLog[1].tag = <<0>>
  /\ messages = <<2>>
  /\ link # 0 /\ links[link].credit = 0 /\ links[link].granted = 1

\* C7: at most one link of the engine is neither closed nor freed, and a null
\* link reference means that none is.
C7_AtMostOneLiveLink ==
  /\ Cardinality({l \in DOMAIN links : Live(l)}) <= 1
  /\ link = 0 => \A l \in DOMAIN links : ~Live(l)

\* C8: a timer that fires while a link is attached, or after stop() tore the
\* engine down, creates no link and leaves iteration alone.
C8_TimerNoOpWhenAttachedOrStopped ==
  [][(OnTimerTask /\ (link # 0 \/ stopped))
       => UNCHANGED <<link, links, iteration>>]_vars

C10_ConnectionNeverClosed == connCloses = 0

\* C10, amended: the only handler that closes the shared connection is
\* on_link_remote_close, once, for a link that is not locally closed and was
\* detached with a condition in fatal_conditions (never for an absent or another
\* condition); start, stop, the timer task and the sender's handlers never close it.
C10_ConnectionClosedOnlyOnFatalDetach ==
  [][connCloses' # connCloses =>
       /\ connCloses' = connCloses + 1
       /\ \E l \in DOMAIN links, c \in FatalNames :
            OnLinkRemoteClose(l, c) /\ ~links[l].localClosed
       /\ ~\E l \in DOMAIN links, c \in OtherConditions : OnLinkRemoteClose(l, c)]_vars

\* The connection was closed once although the engine was stopped and started
\* again and a message went through the sender's handlers.
C10_Witness ==
  /\ connCloses = 1
  /\ Len(links) >= 2
  /\ sentLog # <<>>

LastFreeBefore(k) ==
  LET F == {j \in 1..(k - 1) : policyLog[j].op = "free"}
  IN IF F = {} THEN 0 ELSE CHOOSE j \in F : \A i \in F : i <= j

\* The session() calls of the log.
SessionCalls == {k \in DOMAIN policyLog : policyLog[k].op = "session"}

\* C12: session() calls with no free() between them return the same instance,
\* on which open() was called exactly once and which context.session() made
\* once; the first session() after a free() returns a session made by that
\* call, never one returned before; the policy holds at most one session that
\* is not closed and freed, the one it references.
C12_SessionSharedUntilFree ==
  /\ \A j, k \in SessionCalls :
       j < k => ((LastFreeBefore(j) = LastFreeBefore(k)) <=> (policyLog[j].ret = policyLog[k].ret))
  /\ \A k \in SessionCalls : policyLog[k].ret \in DOMAIN sessionObjs
  /\ \A i \in DOMAIN sessionObjs :
       /\ sessionObjs[i].opens = 1
       /\ \E k \in SessionCalls : policyLog[k].ret = i
       /\ sessionObjs[i].closes = 0 => i = shared_session
  /\ Len(sessionObjs) =
       Cardinality({k \in SessionCalls :
                      \A j \in SessionCalls : j < k => LastFreeBefore(j) # LastFreeBefore(k)})

\* session(), session(), free(), session(): the first two returned the same
\* session, the last one a new one.
C12_Witness ==
  /\ Len(policyLog) = 4
  /\ policyLog[1].op = "session" /\ policyLog[2].op = "session"
  /\ policyLog[3].op = "free" /\ policyLog[4].op = "session"
  /\ policyLog[1].ret = 1 /\ policyLog[2].ret = 1 /\ policyLog[4].ret = 2
  /\ shared_session = 2

\* C13: free() closes and frees the held session exactly once and clears the
\* reference; a free() with no session held closes and frees nothing: no
\* session is ever closed or freed twice, a session is closed and freed once
\* exactly when the policy no longer holds it, and after a free() the policy is
\* empty.
C13_FreeIdempotent ==
  /\ \A i \in DOMAIN sessionObjs :
       /\ sessionObjs[i].closes = sessionObjs[i].frees
       /\ sessionObjs[i].closes = (IF i = shared_session THEN 0 ELSE 1)
  /\ (policyLog # <<>> /\ policyLog[Len(policyLog)].op = "free") => shared_session = 0
  /\ shared_session # 0 => shared_session = Len(sessionObjs)

\* session(), free(), free(): the one session was closed and freed once and
\* the policy is empty.
C13_Witness ==
  /\ Len(policyLog) = 3
  /\ policyLog[1].op = "session" /\ policyLog[2].op = "free" /\ policyLog[3].op = "free"
  /\ Len(sessionObjs) = 1 /\ sessionObjs[1].closes = 1 /\ sessionObjs[1].frees = 1
  /\ shared_session = 0

C15_SelectorOperator ==
  selResult # <<>> =>
    /\ selResult[1] = "amqp.annotation."
    /\ IF selValue.type \in {"bytes", "unicode"}
       THEN /\ selResult[2] = "x-opt-offset"
            /\ selResult[4] = (IF selInclusive THEN ">=" ELSE ">")
            /\ selResult[6] = selValue.text
       ELSE /\ selResult[2] = "x-opt-enqueued-time"
            /\ selResult[4] = ">"

\* The selector of the inclusive offset token "100" has been built.
C15_Witness ==
  /\ selValue = [type |-> "unicode", text |-> "100"]
  /\ selInclusive
  /\ selResult = <<"amqp.annotation.", "x-opt-offset", " ", ">=", " '", "100", "'">>

\* C16: a remote-close event for a link the local side has already closed is a
\* no-op in the handler, whatever the condition, fatal ones included: the link
\* is neither closed nor freed again, the engine's reference, the pending
\* timers and the connection are left alone; only the peer's side of the link
\* is now closed.
C16_RemoteCloseAfterLocalCloseIsNoOp ==
  [][\A l \in DOMAIN links, c \in Conditions :
       (OnLinkRemoteClose(l, c) /\ links[l].localClosed)
         => /\ links' = [links EXCEPT ![l].remoteClosed = TRUE]
            /\ UNCHANGED <<link, timers, connCloses, iteration, container, injector,
                           messages, sentLog, err>>]_vars

\* The peer's close arrived after stop(): the only link was closed and freed
\* once, by stop(), and nothing was scheduled or closed.
C16_Witness ==
  /\ Len(links) = 1 /\ link = 0 /\ stopped
  /\ links[1].localClosed /\ links[1].remoteClosed /\ links[1].frees = 1
  /\ timers = <<>> /\ connCloses = 0

\* C17: a sender creates its injector and registers it with the container on
\* its first attach and never again: there is one registration once a link was
\* ever attached and none before; a later attach keeps the injector it finds;
\* stop() closes the injector and keeps the reference, and a closed injector
\* stays closed, so the engine started again after stop() has a closed injector.
C17_InjectorCreatedOnce ==
  /\ [](kind = "send" =>
         /\ selectables = (IF iteration = 0 THEN 0 ELSE 1)
         /\ (injector = "none") <=> (iteration = 0))
  /\ [][/\ injector # "none" => injector' # "none"
        /\ injector = "closed" => injector' = "closed"
        /\ (Stop /\ injector # "none") => injector' = "closed"
        /\ ((Start \/ OnTimerTask) /\ injector # "none")
             => (injector' = injector /\ selectables' = selectables)]_vars

\* A sender stopped and started again: its second link is attached and its
\* one injector is closed.
C17_Witness ==
  /\ kind = "send" /\ injector = "closed" /\ selectables = 1
  /\ iteration = 2 /\ link = 2 /\ Live(2) /\ ~stopped /\ err = "none"

\* C18: a link reference that is not null points to a link that was not freed.
C18_CurrentLinkNotFreed ==
  link # 0 => links[link].frees = 0

\* C19: on_message handled while the sender has no attached link completes
\* without error and appends the message to the queue.
C19_OnMessageWithoutLinkCompletes ==
  [][(OnMessage /\ link = 0)
       => (err' = "none" /\ messages' = Append(messages, Head(injq)))]_vars

\* The messages passed to link.send, in call order.
SentMsgs == [k \in DOMAIN sentLog |-> sentLog[k].msg]

\* C20: the messages passed to link.send followed by the queued ones form one
\* sequence that grows only by the message of a handled enqueue event, at its
\* end, and otherwise never changes: a handled message is in the queue or was
\* sent, never both and never twice. Start, stop, a remote close and a timer
\* task leave the queue and the sends as they are. No message occurs twice
\* among the sent, the queued and the posted ones.
C20_NoMessageLostOrDuplicated ==
  /\ [](LET all == SentMsgs \o messages \o injq
        IN /\ \A i \in 1..(Len(all) - 1) : all[i + 1] = all[i] + 1
           /\ all # <<>> => all[Len(all)] = nextMsg - 1)
  /\ [][IF OnMessage
          THEN SentMsgs' \o messages' = (SentMsgs \o messages) \o <<Head(injq)>>
          ELSE SentMsgs' \o messages' = SentMsgs \o messages]_vars
  /\ [][(\/ Start \/ Stop \/ OnTimerTask
         \/ \E l \in DOMAIN links, c \in Conditions : OnLinkRemoteClose(l, c))
        => UNCHANGED <<messages, sentLog, injq, count>>]_vars

\* One message was sent, the next is still queued, and the engine has been
\* detached, reattached and stopped since.
C20_Witness ==
  /\ Len(sentLog) = 1 /\ messages = <<2>> /\ injq = <<>>
  /\ Len(links) = 2 /\ link = 0 /\ stopped

====
